---- MODULE Spec2Model ----
(***************************************************************************)
(* Model of the agent control loop of rednote.py (generate_rednote): the   *)
(* conversation log, the tool-call dispatch over available_tools, the      *)
(* extraction of the final JSON record from a text reply, and the ways the *)
(* run returns.                                                            *)
(*                                                                         *)
(* Text is modelled as a sequence of lexical tokens:                       *)
(*   "FENCE_JSON"  the literal start marker, three backticks and json (it  *)
(*              begins with three backticks, so the regular expression's   *)
(*              end marker matches it too)                                 *)
(*   "FENCE"    the literal end marker, three backticks                    *)
(*   " "        one run of blanks (whitespace to the regular expression    *)
(*              and to JSON, and legal inside a string)                    *)
(*   "{" "}"    braces                                                     *)
(*   "title:A" "title:B" "body:C" "hashtags:H" "emojis:E"   one complete   *)
(*              double-quoted "key": value member (with the comma that     *)
(*              separates it from a neighbour)                             *)
(*   "body:QUOTE"  the key body, the colon and the opening quote of its    *)
(*              string value; the tokens up to the next "QUOTE" are the    *)
(*              characters of that string                                  *)
(*   "QUOTE"    the closing quote of such a string                         *)
(*   "'q'"      single-quoted pseudo-JSON or prose: never valid JSON       *)
(* json.loads raises only JSONDecodeError on a text that is not JSON (its  *)
(* documented contract).                                                   *)
(***************************************************************************)
EXTENDS Integers, Sequences, FiniteSets, TLC

\* ---- bounds ----
MaxIter == 2
MaxBatch == 2
MaxTextLen == 4
MaxStringLen == 2

\* ---- program constants ----
SYSTEM_PROMPT == <<"SYSTEM_PROMPT">>
USER_REQUEST == <<"USER_REQUEST">>
FAILURE_TEXT == <<"GENERATION_FAILED">>

available_tools == {"search_web", "query_product_database", "generate_emoji"}

\* ---- tokens ----
FENCE_JSON == "FENCE_JSON"
FENCE == "FENCE"
WS == " "
LB == "{"
RB == "}"
BODY_OPEN == "body:QUOTE"
QUOTE == "QUOTE"
SINGLE_QUOTED == "'q'"
MemberTokens == {"title:A", "title:B", "body:C", "hashtags:H", "emojis:E"}

Key(tok) ==
    CASE tok \in {"title:A", "title:B"} -> "title"
      [] tok = "body:C" -> "body"
      [] tok = "hashtags:H" -> "hashtags"
      [] OTHER -> "emojis"
\* a value is the sequence of the tokens that spell it
Value(tok) ==
    CASE tok = "title:A" -> <<"A">>
      [] tok = "title:B" -> <<"B">>
      [] tok = "body:C" -> <<"C">>
      [] tok = "hashtags:H" -> <<"H">>
      [] OTHER -> <<"E">>
IsMember(pair) == \E tok \in MemberTokens : Key(tok) = pair[1] /\ Value(tok) = pair[2]
MemberToken(pair) == CHOOSE tok \in MemberTokens : Key(tok) = pair[1] /\ Value(tok) = pair[2]

\* ---- json.loads / json.dumps ----
\* dict[k] = v : an existing key keeps its position, a new key goes last
RECURSIVE DictSet(_, _, _)
DictSet(d, k, v) ==
    IF d = <<>> THEN << <<k, v>> >>
    ELSE IF Head(d)[1] = k THEN << <<k, v>> >> \o Tail(d)
    ELSE << Head(d) >> \o DictSet(Tail(d), k, v)

RECURSIVE Strip(_)
Strip(s) ==
    IF s = <<>> THEN s
    ELSE IF Head(s) = WS THEN Strip(Tail(s))
    ELSE IF s[Len(s)] = WS THEN Strip(SubSeq(s, 1, Len(s) - 1))
    ELSE s

\* the tokens without a double quote: the ones a string value can hold
StringTokens == {FENCE_JSON, FENCE, WS, LB, RB, SINGLE_QUOTED}

\* the position at which the string opened before p ends: that of the first
\* token with a double quote; 0 when there is none or it is not a closing quote
RECURSIVE FirstQuote(_, _)
FirstQuote(s, p) ==
    IF p > Len(s) THEN 0
    ELSE IF s[p] \in StringTokens THEN FirstQuote(s, p + 1)
    ELSE IF s[p] = QUOTE THEN p
    ELSE 0

\* the members between the braces, into the dict d
RECURSIVE Members(_, _)
Members(s, d) ==
    IF s = <<>> THEN [ok |-> TRUE, value |-> d]
    ELSE IF Head(s) = WS THEN Members(Tail(s), d)
    ELSE IF Head(s) \in MemberTokens
         THEN Members(Tail(s), DictSet(d, Key(Head(s)), Value(Head(s))))
    ELSE IF Head(s) = BODY_OPEN /\ FirstQuote(s, 2) # 0
         THEN LET q == FirstQuote(s, 2)
              IN Members(SubSeq(s, q + 1, Len(s)), DictSet(d, "body", SubSeq(s, 2, q - 1)))
    ELSE [ok |-> FALSE, value |-> <<>>]

\* json.loads(s): [ok |-> FALSE] stands for JSONDecodeError
JsonLoads(s) ==
    LET b == Strip(s)
    IN IF Len(b) >= 2 /\ b[1] = LB /\ b[Len(b)] = RB
       THEN Members(SubSeq(b, 2, Len(b) - 1), <<>>)
       ELSE [ok |-> FALSE, value |-> <<>>]

DumpMember(pair) ==
    IF IsMember(pair) THEN <<MemberToken(pair)>>
    ELSE <<BODY_OPEN>> \o pair[2] \o <<QUOTE>>

RECURSIVE DumpMembers(_)
DumpMembers(d) ==
    IF d = <<>> THEN <<>>
    ELSE <<WS>> \o DumpMember(Head(d)) \o DumpMembers(Tail(d))

JsonDumps_dropsLast(d) ==
    IF Len(d) <= 1 THEN <<LB, RB>>
    ELSE <<LB>> \o DumpMembers(SubSeq(d, 1, Len(d) - 1)) \o <<WS, RB>>

\* json.dumps(d, ensure_ascii=False, indent=2)
JsonDumps(d) ==
    IF d = <<>> THEN <<LB, RB>>
    ELSE <<LB>> \o DumpMembers(d) \o <<WS, RB>>

\* re.search for: start marker, whitespace, group from an opening brace greedily
\* to a closing brace, whitespace, end marker (DOTALL)
RECURSIVE SkipWs(_, _)
SkipWs(s, p) == IF p <= Len(s) /\ s[p] = WS THEN SkipWs(s, p + 1) ELSE p

EndMarkerAt(s, p) == p <= Len(s) /\ s[p] \in {FENCE, FENCE_JSON}

GroupStart(s, i) == SkipWs(s, i + 1)

GroupEnds(s, i) ==
    {k \in (GroupStart(s, i) + 1)..Len(s) : s[k] = RB /\ EndMarkerAt(s, SkipWs(s, k + 1))}

MatchesAt(s, i) ==
    /\ s[i] = FENCE_JSON
    /\ GroupStart(s, i) <= Len(s)
    /\ s[GroupStart(s, i)] = LB
    /\ GroupEnds(s, i) # {}

Maximum(S) == CHOOSE x \in S : \A y \in S : y <= x
Minimum(S) == CHOOSE x \in S : \A y \in S : x <= y

\* the group ended at the first closing brace that an end marker follows
ReSearch_lazy(s) ==
    LET starts == {i \in 1..Len(s) : MatchesAt(s, i)}
    IN IF starts = {} THEN [found |-> FALSE, group |-> <<>>]
       ELSE LET i == Minimum(starts)
            IN [found |-> TRUE,
                group |-> SubSeq(s, GroupStart(s, i), Minimum(GroupEnds(s, i)))]

\* the match object: found, and group(1)
ReSearch(s) ==
    LET starts == {i \in 1..Len(s) : MatchesAt(s, i)}
    IN IF starts = {} THEN [found |-> FALSE, group |-> <<>>]
       ELSE LET i == Minimum(starts)
            IN [found |-> TRUE,
                group |-> SubSeq(s, GroupStart(s, i), Maximum(GroupEnds(s, i)))]

ParseReply_noFallback(content) ==
    LET m == ReSearch(content)
    IN IF m.found THEN JsonLoads(m.group) ELSE [ok |-> FALSE, value |-> <<>>]

\* the whole text tried after a fenced span that does not decode
ParseReply_fallsThrough(content) ==
    LET m == ReSearch(content)
    IN IF m.found /\ JsonLoads(m.group).ok THEN JsonLoads(m.group) ELSE JsonLoads(content)

\* lines 306-326: the decoded record, or none
ParseReply(content) ==
    LET m == ReSearch(content)
    IN IF m.found THEN JsonLoads(m.group) ELSE JsonLoads(content)


\* ---- format_rednote_for_markdown, lines 355-362 ----
UNTITLED == <<"UNTITLED">>

DictHas(d, k) == \E i \in 1..Len(d) : d[i][1] = k

\* data.get(k, default)
DictGet(d, k, default) ==
    IF DictHas(d, k) THEN d[CHOOSE i \in 1..Len(d) : d[i][1] = k][2] ELSE default

FormatTitle_emptyDefault(json_string) == DictGet(JsonLoads(json_string).value, "title", <<>>)

\* line 360
FormatTitle(json_string) == DictGet(JsonLoads(json_string).value, "title", UNTITLED)

\* line 361
FormatBody(json_string) == DictGet(JsonLoads(json_string).value, "body", <<>>)

\* ---- messages ----
NoToolCalls == <<>>
NoContent == <<>>
NoId == 0

Message(role, content, tool_calls, tool_call_id) ==
    [role |-> role, content |-> content, tool_calls |-> tool_calls,
     tool_call_id |-> tool_call_id]

\* lines 245-248
InitialMessages ==
    << Message("system", SYSTEM_PROMPT, NoToolCalls, NoId),
       Message("user", USER_REQUEST, NoToolCalls, NoId) >>

\* messages.append(response_message), lines 271, 317, 326
AssistantMessage(reply) == Message("assistant", reply.content, reply.tool_calls, NoId)

ToolOutput_noId(tool_call, tool_result) ==
    Message("tool", tool_result, NoToolCalls, NoId)

\* lines 286-290
ToolOutput(tool_call, tool_result) ==
    Message("tool", tool_result, NoToolCalls, tool_call.id)

\* lines 292-298
UnknownToolOutput(tool_call) ==
    Message("tool", <<"ERROR_UNKNOWN_TOOL", tool_call.name>>, NoToolCalls, tool_call.id)

\* ---- the replies the model can give ----
ToolNames == {"search_web", "no_such_tool"}
ArgumentTexts == {"", "ARGS_OK", "ARGS_MALFORMED"}
IDs == 1..MaxBatch

\* an unregistered name is tried with decodable and with malformed arguments
ToolCalls ==
    {tc \in [id : IDs, name : ToolNames, arguments : ArgumentTexts] :
        tc.name \in available_tools \/ tc.arguments # ""}

\* the ids of one assistant turn are unique and not tied to the position:
\* they count up or down along the batch
Batches ==
    UNION { {b \in [1..n -> ToolCalls] :
                \/ \A i \in 1..n : b[i].id = i
                \/ \A i \in 1..n : b[i].id = n + 1 - i} : n \in 1..MaxBatch }

FencedValid == <<FENCE_JSON, LB, "title:A", "body:C", RB, FENCE>>

TextReplies ==
    { FencedValid,
      <<SINGLE_QUOTED, FENCE_JSON, WS, LB, "title:B", "title:A", RB, WS, FENCE, SINGLE_QUOTED>>,
      <<LB, "body:C", "title:A", RB>>,
      <<WS, LB, RB, WS>>,
      <<FENCE_JSON, LB, SINGLE_QUOTED, RB, FENCE>>,
      <<FENCE_JSON, LB, RB, FENCE, SINGLE_QUOTED, FENCE_JSON, LB, RB, FENCE>>,
      <<FENCE_JSON, LB, "title:A", RB>>,
      <<LB, SINGLE_QUOTED, RB>>,
      <<SINGLE_QUOTED>> }

\* every text of up to MaxTextLen tokens
TextAlphabet ==
    {FENCE_JSON, FENCE, WS, LB, RB, "title:A", "body:C", SINGLE_QUOTED, BODY_OPEN, QUOTE}
BoundedTexts == UNION { [1..n -> TextAlphabet] : n \in 1..MaxTextLen }

\* the records with the fields of the format of lines 93-98, each present or
\* not, the body also a string of up to MaxStringLen tokens
Strings == UNION { [1..n -> StringTokens] : n \in 0..MaxStringLen }
Artifacts ==
    { t \o b \o h \o e :
        t \in {<<>>, << <<"title", <<"A">> >> >>, << <<"title", <<"B">> >> >>},
        b \in {<<>>, << <<"body", <<"C">> >> >>} \cup { << <<"body", str>> >> : str \in Strings },
        h \in {<<>>, << <<"hashtags", <<"H">> >> >>},
        e \in {<<>>, << <<"emojis", <<"E">> >> >>} }

\* start marker, payload, end marker (lines 92-99)
Fenced(payload) == <<FENCE_JSON, WS>> \o payload \o <<WS, FENCE>>

\* valid JSON whose body string holds a fenced span, and the bare record of
\* all four fields
EmbeddedFenceTexts ==
    { <<LB, "title:A", BODY_OPEN, FENCE_JSON, LB, SINGLE_QUOTED, RB, FENCE, QUOTE, RB>>,
      <<LB, BODY_OPEN, FENCE_JSON, WS, LB, LB, RB, WS, FENCE, QUOTE, "title:B", RB>>,
      <<LB, BODY_OPEN, FENCE_JSON, LB, RB, FENCE, QUOTE, RB>>,
      <<LB, "title:A", "body:C", "hashtags:H", "emojis:E", RB>> }

ParserTexts ==
    BoundedTexts \cup TextReplies \cup EmbeddedFenceTexts
      \cup { JsonDumps(d) : d \in Artifacts }
      \cup { Fenced(JsonDumps(d)) : d \in Artifacts }

\* a reply with tool calls, with or without text beside them
ToolCallReplies ==
    {r \in [content : {NoContent, FencedValid}, tool_calls : Batches] :
        r.content = NoContent \/ Len(r.tool_calls) = 1}

\* ---- arguments and handlers ----
\* line 277: json.loads(arguments) if arguments else {}
ArgsDecodeFails(arguments) == arguments = "ARGS_MALFORMED"

\* line 284: tool_function(**function_args); the handlers each take one
\* required parameter, so a call with {} raises TypeError
HandlerFails(name, arguments) == name \in available_tools /\ arguments = ""

\* str(tool_result)
HandlerResult(name, arguments) == <<"RESULT_OF", name>>

\* ---- state ----
VARIABLES max_iterations, iteration_count, messages, final_response,
          response_message, tool_index, tool_outputs, pc, result,
          invocations, submitted, ended_by

vars == <<max_iterations, iteration_count, messages, final_response,
          response_message, tool_index, tool_outputs, pc, result,
          invocations, submitted, ended_by>>

None == <<>>
NoReply == [content |-> NoContent, tool_calls |-> NoToolCalls]

Init ==
    /\ max_iterations \in -1..MaxIter
    /\ iteration_count = 0
    /\ messages = InitialMessages
    /\ final_response = None
    /\ response_message = NoReply
    /\ tool_index = 0
    /\ tool_outputs = <<>>
    /\ pc = "while"
    /\ result = None
    /\ invocations = 0
    /\ submitted = <<>>
    /\ ended_by = "RUNNING"

LoopCondition_offByOne == iteration_count <= max_iterations

\* line 253
LoopCondition == iteration_count < max_iterations

\* lines 254-264: one more round, the model is called with the messages
Invoke ==
    /\ pc = "while"
    /\ LoopCondition
    /\ iteration_count' = iteration_count + 1
    /\ invocations' = invocations + 1
    /\ submitted' = messages
    /\ UNCHANGED max_iterations

ResultOf_distinct(how) == IF how = "BUDGET" THEN <<"BUDGET_EXCEEDED">> ELSE FAILURE_TEXT

\* line 337: the one return statement behind the loop
ResultOf(how) == FAILURE_TEXT

\* lines 336-337, reached by the loop condition or by a break
ReturnFailure(how) ==
    /\ pc' = "returned"
    /\ result' = ResultOf(how)
    /\ ended_by' = how

\* create() raises, or the reply has no choices: lines 332-334
ModelFault ==
    /\ Invoke
    /\ ReturnFailure("MODEL_FAULT")
    /\ UNCHANGED <<messages, final_response, response_message, tool_index, tool_outputs>>

\* the text beside the tool calls looked at first
ModelToolCalls_parsesText ==
    /\ Invoke
    /\ \E r \in ToolCallReplies :
          /\ response_message' = r
          /\ IF r.content # NoContent /\ ParseReply(r.content).ok
             THEN /\ final_response' = <<ParseReply(r.content).value>>
                  /\ result' = JsonDumps(ParseReply(r.content).value)
                  /\ pc' = "returned"
                  /\ ended_by' = "DONE"
                  /\ UNCHANGED <<messages, tool_index, tool_outputs>>
             ELSE /\ messages' = Append(messages, AssistantMessage(r))
                  /\ tool_outputs' = <<>>
                  /\ tool_index' = 1
                  /\ pc' = "for"
                  /\ UNCHANGED <<final_response, result, ended_by>>

\* lines 269-273
ModelToolCalls ==
    /\ Invoke
    /\ \E r \in ToolCallReplies :
          /\ response_message' = r
          /\ messages' = Append(messages, AssistantMessage(r))
    /\ tool_outputs' = <<>>
    /\ tool_index' = 1
    /\ pc' = "for"
    /\ UNCHANGED <<final_response, result, ended_by>>

\* each output appended to messages as soon as its request is resolved
ResolveToolCall_eager ==
    /\ pc = "for"
    /\ tool_index <= Len(response_message.tool_calls)
    /\ LET tool_call == response_message.tool_calls[tool_index]
           output == IF tool_call.name \in available_tools
                     THEN ToolOutput(tool_call, HandlerResult(tool_call.name, tool_call.arguments))
                     ELSE UnknownToolOutput(tool_call)
       IN IF ArgsDecodeFails(tool_call.arguments)
          THEN /\ ReturnFailure("ARGS_ERROR")
               /\ UNCHANGED <<tool_outputs, tool_index, messages>>
          ELSE IF HandlerFails(tool_call.name, tool_call.arguments)
          THEN /\ ReturnFailure("HANDLER_ERROR")
               /\ UNCHANGED <<tool_outputs, tool_index, messages>>
          ELSE /\ messages' = Append(messages, output)
               /\ tool_index' = tool_index + 1
               /\ UNCHANGED <<tool_outputs, pc, result, ended_by>>
    /\ UNCHANGED <<max_iterations, iteration_count, final_response,
                   response_message, invocations, submitted>>

\* lines 274-298: the loop body for one request, with the except of 332-334
ResolveToolCall ==
    /\ pc = "for"
    /\ tool_index <= Len(response_message.tool_calls)
    /\ LET tool_call == response_message.tool_calls[tool_index]
       IN IF ArgsDecodeFails(tool_call.arguments)
          THEN /\ ReturnFailure("ARGS_ERROR")
               /\ UNCHANGED <<tool_outputs, tool_index>>
          ELSE IF tool_call.name \in available_tools
          THEN IF HandlerFails(tool_call.name, tool_call.arguments)
               THEN /\ ReturnFailure("HANDLER_ERROR")
                    /\ UNCHANGED <<tool_outputs, tool_index>>
               ELSE /\ tool_outputs' = Append(tool_outputs,
                          ToolOutput(tool_call, HandlerResult(tool_call.name, tool_call.arguments)))
                    /\ tool_index' = tool_index + 1
                    /\ UNCHANGED <<pc, result, ended_by>>
          ELSE /\ tool_outputs' = Append(tool_outputs, UnknownToolOutput(tool_call))
               /\ tool_index' = tool_index + 1
               /\ UNCHANGED <<pc, result, ended_by>>
    /\ UNCHANGED <<max_iterations, iteration_count, messages, final_response,
                   response_message, invocations, submitted>>

RECURSIVE Reverse(_)
Reverse(s) == IF s = <<>> THEN <<>> ELSE Append(Reverse(Tail(s)), Head(s))

ExtendOutputs_reversed ==
    /\ pc = "for"
    /\ tool_index > Len(response_message.tool_calls)
    /\ messages' = messages \o Reverse(tool_outputs)
    /\ pc' = "while"
    /\ UNCHANGED <<max_iterations, iteration_count, final_response, response_message,
                   tool_index, tool_outputs, result, invocations, submitted, ended_by>>

\* the batch dispatched again instead of the return to the loop head
ExtendOutputs_redispatches ==
    /\ pc = "for"
    /\ tool_index > Len(response_message.tool_calls)
    /\ tool_index' = 1
    /\ tool_outputs' = <<>>
    /\ UNCHANGED <<max_iterations, iteration_count, messages, final_response, response_message,
                   pc, result, invocations, submitted, ended_by>>

\* the outputs written over the assistant message instead of after it
ExtendOutputs_overwrites ==
    /\ pc = "for"
    /\ tool_index > Len(response_message.tool_calls)
    /\ messages' = SubSeq(messages, 1, Len(messages) - 1) \o tool_outputs
    /\ pc' = "while"
    /\ UNCHANGED <<max_iterations, iteration_count, final_response, response_message,
                   tool_index, tool_outputs, result, invocations, submitted, ended_by>>

\* line 299
ExtendOutputs ==
    /\ pc = "for"
    /\ tool_index > Len(response_message.tool_calls)
    /\ messages' = messages \o tool_outputs
    /\ pc' = "while"
    /\ UNCHANGED <<max_iterations, iteration_count, final_response, response_message,
                   tool_index, tool_outputs, result, invocations, submitted, ended_by>>

\* as ModelText, with the JSONDecodeError left to the except of line 332
ModelText_uncaught ==
    /\ Invoke
    /\ \E c \in TextReplies :
          /\ response_message' = [content |-> c, tool_calls |-> NoToolCalls]
          /\ LET parsed == ParseReply(c)
             IN IF parsed.ok
                THEN /\ final_response' = <<parsed.value>>
                     /\ result' = JsonDumps(parsed.value)
                     /\ pc' = "returned"
                     /\ ended_by' = "DONE"
                     /\ UNCHANGED messages
                ELSE /\ ReturnFailure("PARSE_ERROR")
                     /\ UNCHANGED <<final_response, messages>>
    /\ UNCHANGED <<tool_index, tool_outputs>>

\* lines 302-326, for the text c
HandleText(c) ==
    /\ response_message' = [content |-> c, tool_calls |-> NoToolCalls]
    /\ LET parsed == ParseReply(c)
       IN IF parsed.ok
          THEN /\ final_response' = <<parsed.value>>
               /\ result' = JsonDumps(parsed.value)
               /\ pc' = "returned"
               /\ ended_by' = "DONE"
               /\ UNCHANGED messages
          ELSE /\ messages' = Append(messages, AssistantMessage(response_message'))
               /\ UNCHANGED <<final_response, result, pc, ended_by>>
    /\ UNCHANGED <<tool_index, tool_outputs>>

\* lines 302-326
ModelText ==
    /\ Invoke
    /\ \E c \in TextReplies : HandleText(c)

\* lines 302-326, the text drawn from every bounded text
ModelAnyText ==
    /\ Invoke
    /\ \E c \in ParserTexts : HandleText(c)

\* the empty reply taken as one more round instead of the break of line 330
ModelNeither_continues ==
    /\ Invoke
    /\ response_message' = NoReply
    /\ UNCHANGED <<messages, final_response, tool_index, tool_outputs, pc, result, ended_by>>

\* lines 328-330: neither tool calls nor content
ModelNeither ==
    /\ Invoke
    /\ response_message' = NoReply
    /\ ReturnFailure("NO_CONTENT")
    /\ UNCHANGED <<messages, final_response, tool_index, tool_outputs>>

\* line 253 false, then lines 336-337
LoopExit ==
    /\ pc = "while"
    /\ ~LoopCondition
    /\ ReturnFailure("BUDGET")
    /\ UNCHANGED <<max_iterations, iteration_count, messages, final_response,
                   response_message, tool_index, tool_outputs, invocations, submitted>>

Next ==
    \/ ModelFault
    \/ ModelToolCalls
    \/ ResolveToolCall
    \/ ExtendOutputs
    \/ ModelText
    \/ ModelNeither
    \/ LoopExit

Spec == Init /\ [][Next]_vars

\* the one thread of the run goes on as long as a step is possible: every
\* model invocation and every tool handler returns
FairSpec == Spec /\ WF_vars(Next)

\* the parser on every bounded text: runs of one round whose reply is text
InitParser == Init /\ max_iterations = 1

NextParser ==
    \/ ModelAnyText
    \/ LoopExit

SpecParser == InitParser /\ [][NextParser]_vars


\* ======================= properties of the loop =========================
Budget == IF max_iterations > 0 THEN max_iterations ELSE 0
Returned == pc = "returned"
\* the step in which the model is invoked and answers with text only
TextStep ==
    /\ invocations' = invocations + 1
    /\ response_message'.tool_calls = NoToolCalls
    /\ response_message'.content # NoContent
    /\ ended_by' # "MODEL_FAULT"

\* C1: the model is invoked at most max_iterations times (never when
\* max_iterations <= 0), and once max_iterations invocations have ended in a
\* tool-call round or an unparsed text the next step is the budget failure,
\* with no further invocation.
C1_InvocationBudget ==
    /\ [](invocations <= Budget)
    /\ [][ (pc = "while" /\ invocations >= max_iterations)
             => /\ invocations' = invocations
                /\ pc' = "returned"
                /\ ended_by' = "BUDGET"
                /\ result' = FAILURE_TEXT ]_vars

C1_Witness ==
    /\ Returned
    /\ ended_by = "BUDGET"
    /\ max_iterations >= 2
    /\ invocations = max_iterations

\* the tool-role messages that answer the assistant message at p: those
\* between p and the next assistant message
AnswersOf(state, p) ==
    {q \in (p + 1)..Len(state) :
        /\ state[q].role = "tool"
        /\ \A r \in (p + 1)..q : state[r].role # "assistant"}

NoOrphan(state) ==
    /\ \A p \in 1..Len(state) :
          \A i \in 1..Len(state[p].tool_calls) :
             Cardinality({q \in AnswersOf(state, p) :
                             state[q].tool_call_id = state[p].tool_calls[i].id}) = 1
    /\ \A q \in 1..Len(state) :
          state[q].role = "tool" =>
             \E p \in 1..(q - 1) :
                /\ state[p].role = "assistant"
                /\ q \in AnswersOf(state, p)
                /\ \E i \in 1..Len(state[p].tool_calls) :
                      state[p].tool_calls[i].id = state[q].tool_call_id

\* C2: every conversation state submitted to the model has no orphaned
\* tool-call request: each request id of an assistant message is answered by
\* exactly one of the tool-role messages that follow it (ids are unique
\* within one assistant turn), and each tool-role message answers a request
\* of an earlier assistant message.
C2_NoOrphanSubmitted == NoOrphan(submitted)

C2_Witness ==
    \E q \in 1..Len(submitted) :
       /\ submitted[q].role = "tool"
       /\ submitted[q].content[1] = "ERROR_UNKNOWN_TOOL"
       /\ Len(submitted[q - 1].tool_calls) + Len(submitted[q - 2].tool_calls) >= 2

\* C3: when every request of a batch has been resolved without a failure,
\* what was appended after the submitted state is the assistant message and
\* then exactly one tool-role message per request, in request order, the
\* i-th with the id of the i-th request.
C3_BatchAnswered ==
    (pc = "while" /\ response_message.tool_calls # NoToolCalls) =>
       LET calls == response_message.tool_calls
           base == Len(submitted)
       IN /\ Len(messages) = base + 1 + Len(calls)
          /\ SubSeq(messages, 1, base) = submitted
          /\ messages[base + 1].role = "assistant"
          /\ messages[base + 1].tool_calls = calls
          /\ \A i \in 1..Len(calls) :
                /\ messages[base + 1 + i].role = "tool"
                /\ messages[base + 1 + i].tool_call_id = calls[i].id

C3_Witness ==
    /\ pc = "while"
    /\ Len(response_message.tool_calls) = 2
    /\ response_message.tool_calls[1].id = 2
    /\ response_message.tool_calls[1].name \in available_tools
    /\ response_message.tool_calls[2].name \notin available_tools
    /\ Len(messages) = Len(submitted) + 3


\* the request the for loop is about to resolve
AtRequest == pc = "for" /\ tool_index <= Len(response_message.tool_calls)
CurrentCall == response_message.tool_calls[tool_index]
\* the step resolves the current request into one more tool-role message
\* with the request's id and goes on with the batch
AnsweredInStep ==
    /\ pc' = "for"
    /\ tool_index' = tool_index + 1
    /\ Len(tool_outputs') = Len(tool_outputs) + 1
    /\ tool_outputs'[Len(tool_outputs')].role = "tool"
    /\ tool_outputs'[Len(tool_outputs')].tool_call_id = CurrentCall.id
    /\ SubSeq(tool_outputs', 1, Len(tool_outputs)) = tool_outputs

\* C4: a request whose arguments cannot be deserialized does not abort the
\* loop: it is answered by a tool-role error message with its id and the
\* batch goes on.
C4_ArgumentErrorRecovered ==
    [][ (AtRequest /\ ArgsDecodeFails(CurrentCall.arguments)) => AnsweredInStep ]_vars

\* C5: a failing registered handler is answered by a tool-role message with
\* error text for that request; the failure does not end the run.
C5_HandlerFailureRecovered ==
    [][ (/\ AtRequest
         /\ ~ArgsDecodeFails(CurrentCall.arguments)
         /\ HandlerFails(CurrentCall.name, CurrentCall.arguments))
           => AnsweredInStep ]_vars

\* C6: a request naming a tool absent from available_tools is answered by a
\* tool-role message with its id and an error string, no fault is raised, and
\* the batch it belongs to is carried through to the next round.
C6_UnknownToolRecovered ==
    [][ /\ (AtRequest /\ CurrentCall.name \notin available_tools)
            => /\ AnsweredInStep
               /\ tool_outputs'[Len(tool_outputs')].content[1] = "ERROR_UNKNOWN_TOOL"
        /\ (/\ pc = "for"
            /\ \E i \in 1..Len(response_message.tool_calls) :
                  response_message.tool_calls[i].name \notin available_tools)
            => pc' # "returned" ]_vars

\* C7: a run ends without an artifact only because the model invocation
\* failed (a reply with neither tool calls nor text included) or because
\* max_iterations invocations were used up.
C7_OnlyFaultOrBudgetEnds ==
    (Returned /\ ended_by # "DONE") =>
        \/ ended_by \in {"MODEL_FAULT", "NO_CONTENT"}
        \/ ended_by = "BUDGET" /\ invocations >= max_iterations

\* C8 as stated: the value returned on budget exhaustion differs from the
\* value returned on a model-invocation fault.
C8_FailuresDistinguishable ==
    (Returned /\ ended_by = "BUDGET") => result # ResultOf("MODEL_FAULT")

\* C8 amended: budget exhaustion and a model-invocation fault return the
\* same value, the fixed failure text.
C8_FailuresReturnSameText ==
    (Returned /\ ended_by \in {"BUDGET", "MODEL_FAULT", "NO_CONTENT"}) => result = FAILURE_TEXT

C8_Witness ==
    /\ Returned
    /\ ended_by = "BUDGET"
    /\ max_iterations > 0
    /\ result = ResultOf("MODEL_FAULT")

\* C9: a text reply that does not parse is appended as one assistant message
\* carrying that text, and the run goes back to the loop head without
\* returning.
C9_UnparsedTextContinues ==
    [][ (TextStep /\ ~ParseReply(response_message'.content).ok)
           => /\ messages' = Append(messages,
                     Message("assistant", response_message'.content, NoToolCalls, NoId))
              /\ pc' = "while"
              /\ result' = None
              /\ ended_by' = "RUNNING" ]_vars

C9_Witness ==
    /\ pc = "while"
    /\ Len(messages) = 4
    /\ messages[3].role = "assistant"
    /\ messages[3].content = <<FENCE_JSON, LB, SINGLE_QUOTED, RB, FENCE>>
    /\ messages[4].content = <<LB, SINGLE_QUOTED, RB>>

\* C10: a text reply that parses ends the run at once: the value returned
\* encodes exactly the deserialized record, nothing is appended to the
\* conversation and the model is not invoked again, also on the last
\* permitted round and after tool-call rounds.
C10_ParsedTextReturnsRecord ==
    /\ [][ (TextStep /\ ParseReply(response_message'.content).ok)
              => /\ pc' = "returned"
                 /\ ended_by' = "DONE"
                 /\ messages' = messages ]_vars
    /\ [](ended_by = "DONE" =>
             /\ Returned
             /\ messages = submitted
             /\ final_response = <<ParseReply(response_message.content).value>>
             /\ JsonLoads(result).ok
             /\ JsonLoads(result).value = final_response[1]
             /\ (response_message.content = FencedValid
                    => result = <<LB, WS, "title:A", WS, "body:C", WS, RB>>))
    /\ [][Returned => UNCHANGED vars]_vars

C10_Witness ==
    /\ ended_by = "DONE"
    /\ invocations = max_iterations
    /\ max_iterations >= 2
    /\ Len(messages) > 2
    /\ messages[Len(messages)].role = "tool"
    /\ Len(final_response[1]) = 2

\* ======================= properties of the parser =======================
HasFenceMarker(c) == \E i \in 1..Len(c) : c[i] = FENCE_JSON

\* C11: a text without a fenced block whose whole content is valid JSON is
\* decoded by the whole-text attempt and the run returns that record.
C11_WholeTextFallback ==
    LET c == response_message.content
    IN (/\ response_message.tool_calls = NoToolCalls
        /\ c # NoContent
        /\ ~ReSearch(c).found
        /\ JsonLoads(c).ok) =>
          /\ ended_by = "DONE"
          /\ final_response = <<JsonLoads(c).value>>
          /\ JsonLoads(result).ok
          /\ JsonLoads(result).value = JsonLoads(c).value
          /\ (c = <<LB, "title:A", "body:C", "hashtags:H", "emojis:E", RB>> =>
                 final_response = << << <<"title", <<"A">> >>, <<"body", <<"C">> >>,
                                        <<"hashtags", <<"H">> >>, <<"emojis", <<"E">> >> >> >>)

C11_Witness ==
    /\ ended_by = "DONE"
    /\ ~ReSearch(response_message.content).found
    /\ HasFenceMarker(response_message.content)
    /\ Len(final_response[1]) = 4

\* the record decoded from the reply and the record the returned text spells
Decoded == final_response[1]
ReturnedRecord == JsonLoads(result).value
Empty == <<>>

\* C12 as stated: a record without title or body is accepted and the
\* artifact produced carries that field as empty text, in the returned value
\* or as the renderer reads it.
C12_MissingFieldsEmpty ==
    ended_by = "DONE" =>
       /\ ~DictHas(Decoded, "title") =>
             \/ DictHas(ReturnedRecord, "title") /\ DictGet(ReturnedRecord, "title", UNTITLED) = Empty
             \/ FormatTitle(result) = Empty
       /\ ~DictHas(Decoded, "body") =>
             \/ DictHas(ReturnedRecord, "body") /\ DictGet(ReturnedRecord, "body", UNTITLED) = Empty
             \/ FormatBody(result) = Empty

\* C12 amended: every text that decodes is accepted whatever fields it has
\* (emojis included); the record is returned as decoded, no field added; the
\* renderer reads a missing title as the placeholder of line 360 and a
\* missing body as empty text.
C12_MissingFieldsAsRendered ==
    /\ (/\ response_message.tool_calls = NoToolCalls
        /\ response_message.content # NoContent
        /\ ParseReply(response_message.content).ok) => ended_by = "DONE"
    /\ ended_by = "DONE" =>
          /\ ReturnedRecord = Decoded
          /\ \A k \in {"title", "body", "hashtags", "emojis"} :
                DictHas(ReturnedRecord, k) <=> DictHas(Decoded, k)
          /\ FormatTitle(result) =
                IF DictHas(Decoded, "title") THEN DictGet(Decoded, "title", Empty) ELSE UNTITLED
          /\ FormatBody(result) =
                IF DictHas(Decoded, "body") THEN DictGet(Decoded, "body", UNTITLED) ELSE Empty

C12_Witness ==
    /\ ended_by = "DONE"
    /\ Decoded = << <<"hashtags", <<"H">> >> >>
    /\ FormatTitle(result) = UNTITLED

\* each record with its serialization wrapped in a fenced block
Serialized == { <<d, Fenced(JsonDumps(d))>> : d \in Artifacts }

\* C13: a record serialized into a fenced block and parsed comes back equal
\* field for field.
C13_FencedRoundTrip ==
    LET c == response_message.content
    IN (/\ response_message.tool_calls = NoToolCalls
        /\ Len(c) >= 4
        /\ c[1] = FENCE_JSON
        /\ c[Len(c)] = FENCE) =>
          \A p \in Serialized :
             c = p[2] =>
                /\ ended_by = "DONE"
                /\ Decoded = p[1]
                /\ \A k \in {"title", "body", "hashtags", "emojis"} :
                      /\ DictHas(Decoded, k) <=> DictHas(p[1], k)
                      /\ DictGet(Decoded, k, Empty) = DictGet(p[1], k, Empty)

C13_Witness ==
    /\ ended_by = "DONE"
    /\ response_message.content = Fenced(JsonDumps(Decoded))
    /\ DictHas(Decoded, "title")
    /\ DictGet(Decoded, "body", Empty) = <<RB, FENCE>>

\* ======================= more properties of the loop ====================
\* C14: a reply with neither tool calls nor text ends the run at once as a
\* failure: nothing is appended, no artifact is returned, and the model is
\* not invoked again although budget remains.
C14_EmptyReplyEndsRun ==
    /\ [][ (invocations' = invocations + 1 /\ response_message' = NoReply)
              => /\ pc' = "returned"
                 /\ result' = FAILURE_TEXT
                 /\ final_response' = None
                 /\ messages' = messages ]_vars
    /\ [](ended_by = "NO_CONTENT" =>
             /\ Returned
             /\ result = FAILURE_TEXT
             /\ messages = submitted
             /\ ~ENABLED Next)

C14_Witness ==
    /\ ended_by = "NO_CONTENT"
    /\ iteration_count < max_iterations
    /\ messages = InitialMessages

IsPrefix(s, t) == Len(s) <= Len(t) /\ SubSeq(t, 1, Len(s)) = s

\* C15: the conversation is append-only: the first state submitted is one
\* system message followed by one user message, each later submission has
\* the previous one as a strict prefix, and no step changes, removes or
\* reorders a message already in the conversation.
C15_AppendOnly ==
    /\ [][ invocations' = invocations + 1 =>
              IF invocations = 0
              THEN /\ Len(submitted') = 2
                   /\ submitted'[1] = Message("system", SYSTEM_PROMPT, NoToolCalls, NoId)
                   /\ submitted'[2] = Message("user", USER_REQUEST, NoToolCalls, NoId)
              ELSE /\ IsPrefix(submitted, submitted')
                   /\ Len(submitted) < Len(submitted') ]_vars
    /\ [][ IsPrefix(messages, messages') ]_vars

C15_Witness ==
    /\ invocations = 2
    /\ Len(submitted) = 5
    /\ submitted[3].role = "assistant"
    /\ submitted[5].role = "tool"

\* C16: the conversation holds none or all of the tool-role messages of a
\* batch, never a proper subset: none while the batch is being resolved and
\* none when a fault interrupted it.
C16_BatchAppendedWhole ==
    /\ \A p \in 1..Len(messages) :
          messages[p].tool_calls # NoToolCalls =>
             Cardinality(AnswersOf(messages, p)) \in {0, Len(messages[p].tool_calls)}
    /\ (pc = "for" \/ ended_by \in {"ARGS_ERROR", "HANDLER_ERROR"}) =>
          /\ messages[Len(messages)] = AssistantMessage(response_message)
          /\ response_message.tool_calls # NoToolCalls
          /\ AnswersOf(messages, Len(messages)) = {}

C16_Witness ==
    /\ ended_by = "HANDLER_ERROR"
    /\ tool_index = 2
    /\ Len(tool_outputs) = 1
    /\ messages[Len(messages)].role = "assistant"

\* C17: the two attempts are ordered and exclusive: with a fenced span found
\* only the span is decoded, and when it does not decode the reply counts as
\* not yet structured although the whole text may be valid JSON; the whole
\* text is decoded only when no fenced span is found.
C17_FencedSpanBeforeWholeText ==
    LET c == response_message.content
        m == ReSearch(c)
    IN (response_message.tool_calls = NoToolCalls /\ c # NoContent) =>
          /\ (m.found /\ ~JsonLoads(m.group).ok) =>
                /\ ended_by # "DONE"
                /\ final_response = None
                /\ messages = Append(InitialMessages, Message("assistant", c, NoToolCalls, NoId))
          /\ (m.found /\ JsonLoads(m.group).ok) =>
                /\ ended_by = "DONE"
                /\ Decoded = JsonLoads(m.group).value
          /\ ~m.found => (ended_by = "DONE" <=> JsonLoads(c).ok)

C17_Witness ==
    /\ ended_by # "DONE"
    /\ Len(messages) = 3
    /\ ReSearch(messages[3].content).found
    /\ ~JsonLoads(ReSearch(messages[3].content).group).ok
    /\ JsonLoads(messages[3].content).ok

\* C18: a round handles the tool calls or the text, never both: a reply with
\* tool calls and text has its tool calls dispatched and its text is not
\* parsed, so that round does not end the run with a record even when the
\* text holds a valid fenced payload.
C18_ToolCallsExcludeText ==
    /\ [][ (/\ invocations' = invocations + 1
            /\ ended_by' # "MODEL_FAULT"
            /\ response_message'.tool_calls # NoToolCalls)
              => /\ pc' = "for"
                 /\ ended_by' = "RUNNING"
                 /\ final_response' = None
                 /\ result' = None
                 /\ messages' = Append(messages, AssistantMessage(response_message')) ]_vars
    /\ [](ended_by = "DONE" => response_message.tool_calls = NoToolCalls)
    /\ [](pc = "for" => final_response = None /\ result = None)

C18_Witness ==
    /\ pc = "while"
    /\ ended_by = "RUNNING"
    /\ response_message.tool_calls # NoToolCalls
    /\ response_message.content = FencedValid
    /\ ParseReply(response_message.content).ok
    /\ messages[Len(messages)].role = "tool"

Outcome ==
    CASE ended_by = "RUNNING" -> "RUNNING"
      [] ended_by = "DONE" -> "DONE"
      [] ended_by = "BUDGET" -> "EXHAUSTED"
      [] OTHER -> "FAULTED"

\* C19: every run terminates, in exactly one of the outcomes DONE, EXHAUSTED
\* and FAULTED, and after that nothing happens any more: no invocation, no
\* dispatch, no append.
C19_Terminates ==
    /\ <>Returned
    /\ [](Returned <=> Outcome \in {"DONE", "EXHAUSTED", "FAULTED"})
    /\ [](Returned =>
             /\ (Outcome = "DONE") <=> (final_response # None /\ result # FAILURE_TEXT)
             /\ (Outcome # "DONE") <=> (result = FAILURE_TEXT)
             /\ Outcome = "EXHAUSTED" => iteration_count >= max_iterations
             /\ ~ENABLED Next)
    /\ [][Returned => UNCHANGED vars]_vars
    /\ [][Outcome # "RUNNING" => Outcome' = Outcome]_vars

C19_Witness ==
    /\ Returned
    /\ Outcome = "FAULTED"
    /\ ended_by = "MODEL_FAULT"
    /\ invocations = 2
    /\ Len(messages) = 5

====
